---- MODULE Spec2Model ----
(***************************************************************************)
(* A model of the gomcp dispatcher: the tool registry (pkg/server),        *)
(* the instruction classifier (pkg/utils) and the plan dispatcher          *)
(* (Server.ProcessInstruction, CallLLM, invokeTool, ExecutePlan,           *)
(* CallTool), with the transport step of StartRPCServer.                   *)
(*                                                                         *)
(* Strings the code inspects character by character (instructions,         *)
(* service names) are sequences of one-character strings.  Tool and        *)
(* action names are sequences of segments, so that the literal prefix      *)
(* "functions." is one segment and the empty name is <<>>.                 *)
(***************************************************************************)
EXTENDS Integers, Sequences, FiniteSets, TLC

VARIABLES
    tools,                 \* Server.tools: name -> RegisteredTool
    services,              \* Server.services: name -> Service
    systemPromptOverride,  \* utils.systemPromptOverride
    req,                   \* one record per request slot of the transport
    latest,                \* history: handler passed to the last RegisterTool per name
    owner,                 \* history: service whose RegisterTools registered the name
    loader                 \* history: what reg.RegisterToolsFromConfig did at startup

vars == <<tools, services, systemPromptOverride, req, latest, owner, loader>>

---------------------------------------------------------------------------
(* Bounds of the model *)

\* longest plan array the model client or an RPC caller supplies
MaxPlanLen == 2
\* most function calls in one model response
MaxToolCalls == 2
MaxRequests == 2
\* most tool entries of one service in the configuration file
MaxCfgTools == 1

---------------------------------------------------------------------------
(* Strings *)

UpperCase == <<"A", "B", "C", "D", "E", "F", "G", "H", "I", "J", "K", "L", "M", "N", "O", "P", "Q", "R", "S", "T", "U", "V", "W", "X", "Y", "Z">>
LowerCase == <<"a", "b", "c", "d", "e", "f", "g", "h", "i", "j", "k", "l", "m", "n", "o", "p", "q", "r", "s", "t", "u", "v", "w", "x", "y", "z">>

ToLowerChar(c) ==
    IF \E i \in 1..Len(UpperCase) : UpperCase[i] = c
    THEN LowerCase[CHOOSE i \in 1..Len(UpperCase) : UpperCase[i] = c]
    ELSE c

\* strings.ToLower
ToLower(s) == [i \in 1..Len(s) |-> ToLowerChar(s[i])]

\* strings.Contains
Contains(s, sub) ==
    \E i \in 0..(Len(s) - Len(sub)) : \A j \in 1..Len(sub) : s[i + j] = sub[j]

StrService == <<"s", "e", "r", "v", "i", "c", "e">>
StrList == <<"l", "i", "s", "t">>
StrAvailable == <<"a", "v", "a", "i", "l", "a", "b", "l", "e">>
StrWhatAre == <<"w", "h", "a", "t", " ", "a", "r", "e">>
StrTool == <<"t", "o", "o", "l">>
StrDocker == <<"d", "o", "c", "k", "e", "r">>
StrGit == <<"g", "i", "t">>

\* the namespacing prefix ExecutePlan strips, one segment of a name
FunctionsPrefix == "functions."

\* strings.HasPrefix / strings.TrimPrefix on segmented names
HasPrefix(name, p) == Len(name) > 0 /\ name[1] = p
TrimPrefix(name, p) == IF HasPrefix(name, p) THEN Tail(name) ELSE name

\* utils.ExtractServiceName: docker is tested before git
ExtractServiceName(input) ==
    IF Contains(input, StrDocker) THEN [name |-> StrDocker, found |-> TRUE]
    ELSE IF Contains(input, StrGit) THEN [name |-> StrGit, found |-> TRUE]
    ELSE [name |-> <<>>, found |-> FALSE]

\* utils.IsListServicesQuery
IsListServicesQuery(query) ==
    LET lower == ToLower(query) IN
    Contains(lower, StrService) /\
        (Contains(lower, StrList) \/ Contains(lower, StrAvailable) \/ Contains(lower, StrWhatAre))

\* utils.IsListToolsQuery
IsListToolsQuery(query) ==
    LET lower == ToLower(query) IN
    Contains(lower, StrTool) /\
        (Contains(lower, StrList) \/ Contains(lower, StrAvailable) \/ Contains(lower, StrWhatAre))

---------------------------------------------------------------------------
(* The system prompt (pkg/utils) *)

\* the text getUniversalSystemPrompt returns; "" is the cleared override
UniversalPrompt == "universal"
NoOverride == ""

\* utils.GetSystemPrompt, on the current value of the override
GetSystemPrompt(override) == IF override # NoOverride THEN override ELSE UniversalPrompt

---------------------------------------------------------------------------
(* JSON texts and values *)

\* Texts (Go strings / json.RawMessage): the nil RawMessage, the empty string,
\* text that is no JSON, invokeTool's confirmation sentence (no JSON either:
\* it starts with the word Tool), and the serialisation of a JSON value.
NilRaw == [t |-> "nil"]
EmptyText == [t |-> "empty"]
ProseText == [t |-> "prose"]
ConfirmText(name) == [t |-> "confirm", name |-> name]
JsonText(v) == [t |-> "json", v |-> v]

\* JSON values.  An object keeps the two keys ExecutePlan reads and a tag
\* for whatever other keys it holds.
JNull == [k |-> "null"]
JNum == [k |-> "num"]
JAbsent == [k |-> "absent"]
JStr(s) == [k |-> "str", s |-> s]
JArr(e) == [k |-> "arr", e |-> e]
JObj(a, p, rest) == [k |-> "obj", action |-> a, parameters |-> p, rest |-> rest]
NilMap == [k |-> "nilmap"]

\* json.Unmarshal into interface{}
JsonUnmarshal(text) ==
    IF text.t = "json" THEN [ok |-> TRUE, v |-> text.v] ELSE [ok |-> FALSE, v |-> JNull]

\* json.Marshal of a []string built by append from a nil slice:
\* the slice is still nil when nothing was appended, and nil marshals to null
MarshalStrings(list) ==
    IF Len(list) = 0 THEN JsonText(JNull) ELSE JsonText(JArr(list))

\* the success payloads of ExecutePlan and CallTool
PlanSuccess == JsonText([k |-> "status", status |-> "success", message |-> <<"Plan executed successfully", <<>>>>])
ToolSuccess(name) == JsonText([k |-> "status", status |-> "success", message |-> <<"Tool %s executed successfully", name>>])

---------------------------------------------------------------------------
(* RPC envelope (pkg/mcp) *)

JSONRPCVersion == "2.0"

CodeParseError == -32700
CodeInvalidParams == -32602
CodeMethodNotFound == -32601
CodeExecution == -32000

\* a nil *RPCError
NoError == [Code |-> 0, Message |-> <<"", <<>>>>]
NewError(code, msg) == [Code |-> code, Message |-> msg]

\* var reply mcp.RPCResponse
ZeroReply == [Version |-> "", Result |-> NilRaw, Error |-> NoError]
ResultReply(res) == [Version |-> JSONRPCVersion, Result |-> res, Error |-> NoError]
ErrorReply(code, msg) == [Version |-> JSONRPCVersion, Result |-> NilRaw, Error |-> NewError(code, msg)]

\* a nil Go error, and the errors ProcessInstruction and CallLLM return
NoErr == "nil"

---------------------------------------------------------------------------
(* Tool registry (Server.tools, Server.services) *)

\* m[k] = v on a Go map
MapAssign(m, k, v) == [x \in DOMAIN m \cup {k} |-> IF x = k THEN v ELSE m[x]]

\* make(map[...]...)
EmptyMap == [x \in {} |-> x]

\* the slices a range over a map can build: every order of its entries
Orderings(S) ==
    {seq \in [1..Cardinality(S) -> S] : \A i, j \in 1..Cardinality(S) : seq[i] = seq[j] => i = j}

\* the RegisteredTool literal of RegisterTool: ServiceName is not among the
\* fields it sets and keeps Go's zero value, the empty string
RegisteredTool(name, description, handler) ==
    [Name |-> name, Description |-> description, Handler |-> handler, ServiceName |-> <<>>]

\* RegisterToolIn as it would be if an existing entry were kept
RegisterToolKeepFirst(t, name, description, handler) ==
    IF name \in DOMAIN t THEN t
    ELSE MapAssign(t, name, RegisteredTool(name, description, handler))

\* RegisterToolIn as it would be if the map were rebuilt around the new entry
RegisterToolFreshMap(t, name, description, handler) ==
    MapAssign(EmptyMap, name, RegisteredTool(name, description, handler))

\* s.tools[name] = RegisteredTool{...}
RegisterToolIn(t, name, description, handler) ==
    MapAssign(t, name, RegisteredTool(name, description, handler))

\* service.RegisterTools(s): the service calls s.RegisterTool for each of its tools
RECURSIVE RegisterTools(_, _)
RegisterTools(t, defs) ==
    IF defs = <<>> THEN t
    ELSE RegisterTools(RegisterToolIn(t, Head(defs).name, Head(defs).description, Head(defs).handler), Tail(defs))

\* fmt.Sprintf("%s: %s", tool.Name, tool.Description)
ToolLine(tool) == <<tool.Name, tool.Description>>

\* Server.listTools
listTools == Orderings({ToolLine(tools[n]) : n \in DOMAIN tools})

\* Server.listServices: svc.Name() of every entry
listServices == Orderings({services[n].name : n \in DOMAIN services})

\* the comparison of listToolsForService
ServiceMatches(tool, serviceName) == ToLower(tool.ServiceName) = ToLower(serviceName)

\* Server.listToolsForService
listToolsForService(serviceName) ==
    Orderings({ToolLine(tools[n]) : n \in {m \in DOMAIN tools : ServiceMatches(tools[m], serviceName)}})

---------------------------------------------------------------------------
(* Inputs *)

InstServices == <<"w", "h", "a", "t", " ", "s", "e", "r", "v", "i", "c", "e", "s", " ", "a", "r", "e", " ", "a", "v", "a", "i", "l", "a", "b", "l", "e">>
InstToolsGit == <<"l", "i", "s", "t", " ", "t", "o", "o", "l", "s", " ", "f", "o", "r", " ", "g", "i", "t">>
InstToolsDocker == <<"L", "i", "s", "t", " ", "T", "o", "o", "l", "s", " ", "f", "o", "r", " ", "D", "O", "C", "K", "E", "R">>
InstTools == <<"w", "h", "a", "t", " ", "a", "r", "e", " ", "t", "h", "e", " ", "t", "o", "o", "l", "s">>
InstBoth == <<"l", "i", "s", "t", " ", "t", "o", "o", "l", "s", " ", "a", "n", "d", " ", "s", "e", "r", "v", "i", "c", "e", "s">>
InstPlan == <<"p", "u", "l", "l", " ", "m", "y", "s", "q", "l">>

\* the instructions a client sends
Instructions == {InstServices, InstToolsGit, InstToolsDocker, InstTools, InstBoth, InstPlan}

NameDocker == <<"D", "o", "c", "k", "e", "r">>
NameGit == <<"g", "i", "t">>

\* tool names, handler values and descriptions passed to RegisterTool
ToolA == <<"a">>
ToolB == <<"b">>
ToolNames == {ToolA, ToolB}
\* the names the host registers by calling RegisterTool itself
HostToolNames == {ToolA}
Handlers == {"h1", "h2"}
Descriptions == {"tool"}

\* implementations of the Service interface: a name and the tools its
\* RegisterTools callback registers
DockerService ==
    [name |-> NameDocker, defs |-> <<[name |-> ToolA, description |-> "tool", handler |-> "h1"]>>]
GitService ==
    [name |-> NameGit, defs |-> <<[name |-> ToolB, description |-> "tool", handler |-> "h1"]>>]
ServiceObjs == {DockerService, GitService}

\* a `parameters` object, and the objects of a plan array: an action with
\* parameters, one without, one with the functions. prefix, an empty action
\* name, no action key, and an action that is not a string
ParamsObj == JObj(JAbsent, JAbsent, "name")
ActionObjs ==
    { JObj(JStr(ToolA), ParamsObj, ""),
      JObj(JStr(ToolB), JAbsent, ""),
      JObj(JStr(<<FunctionsPrefix>> \o ToolA), ParamsObj, ""),
      JObj(JStr(<<>>), JAbsent, ""),
      JObj(JAbsent, JAbsent, ""),
      JObj(JNum, JAbsent, "") }

SeqsUpTo(S, n) == UNION {[1..k -> S] : k \in 0..n}

\* plan documents: arrays of objects and non-objects, a single object, a scalar
JsonDocs ==
    {JArr(e) : e \in SeqsUpTo(ActionObjs \cup {JNum}, MaxPlanLen)} \cup ActionObjs \cup {JNum}

\* plan texts: the empty string, text that is no JSON, and JSON documents
PlanTexts == {EmptyText, ProseText} \cup {JsonText(v) : v \in JsonDocs}

\* llms.ToolCall values of a model response: FunctionCall may be nil,
\* and Arguments is a text that may fail to parse
NilFunctionCall == [isnil |-> TRUE, Name |-> <<>>, Arguments |-> EmptyText]
FunctionCall(name, arguments) == [isnil |-> FALSE, Name |-> name, Arguments |-> arguments]
ToolCallValues ==
    { NilFunctionCall,
      FunctionCall(ToolA, JsonText(ParamsObj)),
      FunctionCall(ToolA, ProseText),
      FunctionCall(ToolB, JsonText(ParamsObj)) }
ToolCallSeqs == SeqsUpTo(ToolCallValues, MaxToolCalls) \ {<<>>}

\* what GenerateContent returns: an error, a response without choices,
\* content without tool calls, or tool calls
LLMResponses ==
    {[kind |-> "error", content |-> EmptyText, toolCalls |-> <<>>],
     [kind |-> "nochoice", content |-> EmptyText, toolCalls |-> <<>>]}
    \cup {[kind |-> "content", content |-> c, toolCalls |-> <<>>] : c \in PlanTexts}
    \cup {[kind |-> "calls", content |-> EmptyText, toolCalls |-> tc] : tc \in ToolCallSeqs}

\* the names a CallTool caller sends: the tool names, the empty name, and a
\* tool name with the functions. prefix
CallToolNames == ToolNames \cup {<<>>, <<FunctionsPrefix>> \o ToolA}

\* the parameters CallTool receives
ToolCallArgs == {[ToolName |-> n, Parameters |-> ParamsObj] : n \in CallToolNames}

---------------------------------------------------------------------------
(* Contexts and time *)

\* the ceiling of context.WithTimeout in ExecutePlan, CallTool and invokeTool
ToolTimeout == 30

\* context.Background(): no deadline.  context.WithTimeout(Background, d): a
\* deadline, of which `left` time units remain
Background == [deadline |-> FALSE, left |-> 0]
WithTimeout(d) == [deadline |-> TRUE, left |-> d]

\* how long a handler call can take: a short call, and one that uses up the ceiling
HandlerTimes == {1, ToolTimeout}

\* time passes for the request's context
Elapse(q, d) ==
    [q EXCEPT !.ctx.left = IF @ > d THEN @ - d ELSE 0]

---------------------------------------------------------------------------
(* Configuration file (pkg/reg) *)

\* what a tool entry's module reference turns out to be when it is evaluated
\* or opened: loadable with a Handler of the expected signature, not
\* loadable, loadable without the Handler symbol, or with a Handler of
\* another signature
PluginKinds == {"ok", "unresolvable", "nohandler", "badsig"}

\* ToolConfig and ServiceConfig entries as written in the YAML file; the
\* compiled-module loader's structs have no field for `enabled`, so
\* yaml.Unmarshal drops the key there
ToolConfigs(toolName) ==
    [name : {toolName}, enabled : BOOLEAN, plugin : PluginKinds]
ServiceConfigs(name, toolName) ==
    [name : {name}, enabled : BOOLEAN, tools : SeqsUpTo(ToolConfigs(toolName), MaxCfgTools)]

\* loadConfig's results: an error, or a Config of two services, each with
\* entries for its own tool
NoConfig == [ok |-> FALSE, services |-> <<>>]
Configs ==
    {NoConfig} \cup
    {[ok |-> TRUE, services |-> <<d, g>>] :
        d \in ServiceConfigs(NameDocker, ToolA), g \in ServiceConfigs(NameGit, ToolB)}

\* RegisterToolsFromConfig has not run
NotLoaded ==
    [done |-> FALSE, variant |-> "none", cfg |-> NoConfig, err |-> NoErr,
     opened |-> <<>>, registered |-> <<>>]

---------------------------------------------------------------------------
(* Requests *)

\* a request slot of the transport: nothing is being served
Idle ==
    [ kind |-> "none", pc |-> "idle", instruction |-> <<>>, universalPrompt |-> NoOverride,
      sysPrompt |-> NoOverride, plan |-> EmptyText, acts |-> <<>>, idx |-> 0,
      calls |-> <<>>, ci |-> 0, reply |-> ZeroReply, err |-> NoErr,
      log |-> <<>>, llmCalls |-> 0, answer |-> "none", fcErr |-> "none",
      executing |-> FALSE, ctx |-> Background, llmCtx |-> Background ]

Requests == DOMAIN req

\* NewServer: empty maps; no request is being served
Init ==
    /\ tools = EmptyMap
    /\ services = EmptyMap
    /\ systemPromptOverride = NoOverride
    /\ req = [r \in {1} |-> Idle]
    /\ latest = EmptyMap
    /\ owner = EmptyMap
    /\ loader = NotLoaded

---------------------------------------------------------------------------
(* Registration *)

\* Server.RegisterTool
RegisterTool(name, description, handler) ==
    /\ tools' = RegisterToolIn(tools, name, description, handler)
    /\ latest' = MapAssign(latest, name, handler)
    /\ owner' = MapAssign(owner, name, <<>>)
    /\ UNCHANGED <<services, systemPromptOverride, req, loader>>

\* history of a service's RegisterTools callback: the handlers it passes
RECURSIVE LatestAfter(_, _)
LatestAfter(m, defs) ==
    IF defs = <<>> THEN m
    ELSE LatestAfter(MapAssign(m, Head(defs).name, Head(defs).handler), Tail(defs))

\* history of a service's RegisterTools callback: the tools become the service's
RECURSIVE OwnerAfter(_, _, _)
OwnerAfter(m, defs, serviceName) ==
    IF defs = <<>> THEN m
    ELSE OwnerAfter(MapAssign(m, Head(defs).name, serviceName), Tail(defs), serviceName)

\* Server.RegisterService: store the service, then let it register its tools
RegisterService(service) ==
    /\ services' = MapAssign(services, service.name, service)
    /\ tools' = RegisterTools(tools, service.defs)
    /\ latest' = LatestAfter(latest, service.defs)
    /\ owner' = OwnerAfter(owner, service.defs, service.name)
    /\ UNCHANGED <<systemPromptOverride, req, loader>>

---------------------------------------------------------------------------
(* Dynamic loading (pkg/reg) *)

\* the loader's working state: the registry it registers into, the module
\* references it evaluated or opened and the entries it registered (as
\* <<service index, tool index>>), and the error it returns
LoadState(t, l, o) ==
    [tools |-> t, latest |-> l, owner |-> o, opened |-> <<>>, registered |-> <<>>, err |-> NoErr]

\* one tool entry is loaded: its module reference is evaluated or opened, the
\* Handler symbol is fetched and its signature asserted, and only then
\* r.RegisterTool is called
LoadTool(st, pos, tool) ==
    LET st1 == [st EXCEPT !.opened = Append(@, pos)] IN
    IF tool.plugin = "unresolvable"
    THEN [st1 EXCEPT !.err = "failed to load plugin"]
    ELSE IF tool.plugin = "nohandler"
    THEN [st1 EXCEPT !.err = "failed to retrieve Handler symbol"]
    ELSE IF tool.plugin = "badsig"
    THEN [st1 EXCEPT !.err = "handler does not have the correct signature"]
    ELSE [st1 EXCEPT !.tools = RegisterToolIn(@, tool.name, "tool", "Handler"),
                     !.latest = MapAssign(@, tool.name, "Handler"),
                     !.owner = MapAssign(@, tool.name, <<>>),
                     !.registered = Append(@, pos)]

\* LoadSource as it would be if a failing tool were logged and skipped
RECURSIVE LoadSourceBestEffort(_, _, _, _)
LoadSourceBestEffort(cfg, i, j, st) ==
    IF i > Len(cfg.services) THEN st
    ELSE IF ~cfg.services[i].enabled \/ j > Len(cfg.services[i].tools)
    THEN LoadSourceBestEffort(cfg, i + 1, 1, st)
    ELSE IF ~cfg.services[i].tools[j].enabled
    THEN LoadSourceBestEffort(cfg, i, j + 1, st)
    ELSE LoadSourceBestEffort(cfg, i, j + 1, LoadTool(st, <<i, j>>, cfg.services[i].tools[j]))

\* the loops of the source-evaluation loader from tool j of service i on:
\* disabled services and disabled tools are skipped, the first failure returns
RECURSIVE LoadSource(_, _, _, _)
LoadSource(cfg, i, j, st) ==
    IF i > Len(cfg.services) THEN st
    ELSE IF ~cfg.services[i].enabled \/ j > Len(cfg.services[i].tools)
    THEN LoadSource(cfg, i + 1, 1, st)
    ELSE IF ~cfg.services[i].tools[j].enabled
    THEN LoadSource(cfg, i, j + 1, st)
    ELSE LET st1 == LoadTool(st, <<i, j>>, cfg.services[i].tools[j]) IN
         IF st1.err # NoErr THEN st1 ELSE LoadSource(cfg, i, j + 1, st1)

\* the loops of the compiled-module loader from tool j of service i on:
\* every tool of every service is loaded, the first failure returns
RECURSIVE LoadPlugin(_, _, _, _)
LoadPlugin(cfg, i, j, st) ==
    IF i > Len(cfg.services) THEN st
    ELSE IF j > Len(cfg.services[i].tools)
    THEN LoadPlugin(cfg, i + 1, 1, st)
    ELSE LET st1 == LoadTool(st, <<i, j>>, cfg.services[i].tools[j]) IN
         IF st1.err # NoErr THEN st1 ELSE LoadPlugin(cfg, i, j + 1, st1)

\* the call's effect on the server: NewServer logs a returned error and goes on
Loaded(variant, cfg, st) ==
    /\ tools' = st.tools
    /\ latest' = st.latest
    /\ owner' = st.owner
    /\ loader' = [done |-> TRUE, variant |-> variant, cfg |-> cfg, err |-> st.err,
                  opened |-> st.opened, registered |-> st.registered]
    /\ UNCHANGED <<services, systemPromptOverride, req>>

\* reg.RegisterToolsFromConfig, source-evaluation loader, called by NewServer
RegisterToolsFromConfig(cfg) ==
    /\ ~loader.done
    /\ LET st == LoadState(tools, latest, owner) IN
       IF ~cfg.ok
       THEN Loaded("source", cfg, [st EXCEPT !.err = "failed to read YAML config"])
       ELSE Loaded("source", cfg, LoadSource(cfg, 1, 1, st))

\* reg.RegisterToolsFromConfig, compiled-module loader, called by NewServer
RegisterToolsFromConfigPlugin(cfg) ==
    /\ ~loader.done
    /\ LET st == LoadState(tools, latest, owner) IN
       IF ~cfg.ok
       THEN Loaded("plugin", cfg, [st EXCEPT !.err = "failed to load config"])
       ELSE Loaded("plugin", cfg, LoadPlugin(cfg, 1, 1, st))

---------------------------------------------------------------------------
(* ExecutePlan *)

\* a handler call recorded in a request's log: which path made it, for which
\* action or tool call, the tool name resolved, the handler value, the
\* parameters, the context handed to the handler, and whether it is running,
\* returned nil or returned an error
Invocation(via, idx, name, handler, params, ctx) ==
    [via |-> via, idx |-> idx, name |-> name, handler |-> handler, params |-> params,
     ctx |-> ctx, st |-> "running"]

\* the last invocation of the log returns
Returned(log, ok) ==
    [log EXCEPT ![Len(log)].st = IF ok THEN "ok" ELSE "err"]

\* ExecutePlan writes *reply and returns nil (its deferred cancel releases
\* the context); inside ProcessInstruction that makes ProcessInstruction
\* return nil, and its deferred clear is then due
EPReturn(q, reply) ==
    [q EXCEPT !.reply = reply,
              !.ctx = Background,
              !.pc = IF q.kind = "ProcessInstruction" THEN "pi_clear" ELSE "returned"]

\* PlanOf as it would be if only an array were accepted as a plan
PlanOfArrayOnly(v) ==
    IF v.k = "arr"
    THEN IF \A i \in 1..Len(v.e) : v.e[i].k = "obj"
         THEN [ok |-> TRUE, plan |-> v.e, msg |-> ""]
         ELSE [ok |-> FALSE, plan |-> <<>>, msg |-> "plan array contains non-object element"]
    ELSE [ok |-> FALSE, plan |-> <<>>, msg |-> "plan JSON is neither an object nor an array"]

\* PlanOf as it would be if the non-object elements of an array were dropped
PlanOfSkipNonObjects(v) ==
    IF v.k = "arr"
    THEN [ok |-> TRUE, plan |-> SelectSeq(v.e, LAMBDA x : x.k = "obj"), msg |-> ""]
    ELSE IF v.k = "obj"
    THEN [ok |-> TRUE, plan |-> <<v>>, msg |-> ""]
    ELSE [ok |-> FALSE, plan |-> <<>>, msg |-> "plan JSON is neither an object nor an array"]

\* the type switch on the unmarshalled plan
PlanOf(v) ==
    IF v.k = "arr"
    THEN IF \A i \in 1..Len(v.e) : v.e[i].k = "obj"
         THEN [ok |-> TRUE, plan |-> v.e, msg |-> ""]
         ELSE [ok |-> FALSE, plan |-> <<>>, msg |-> "plan array contains non-object element"]
    ELSE IF v.k = "obj"
    THEN [ok |-> TRUE, plan |-> <<v>>, msg |-> ""]
    ELSE [ok |-> FALSE, plan |-> <<>>, msg |-> "plan JSON is neither an object nor an array"]

\* EPEnter as it would be without the two emptiness checks: the empty string
\* goes to the parser, and the loop over an empty plan runs zero times
EPEnterNoEmptyCheck(q0) ==
    LET q == [q0 EXCEPT !.executing = TRUE]
        u == JsonUnmarshal(q.plan)
        p == PlanOf(u.v)
    IN  IF ~u.ok
        THEN EPReturn(q, ErrorReply(CodeParseError, <<"failed to parse plan JSON", <<>>>>))
        ELSE IF ~p.ok
        THEN EPReturn(q, ErrorReply(CodeParseError, <<p.msg, <<>>>>))
        ELSE IF Len(p.plan) = 0
        THEN EPReturn(q, ResultReply(PlanSuccess))
        ELSE [q EXCEPT !.acts = p.plan, !.idx = 1, !.pc = "ep_loop",
                       !.ctx = WithTimeout(ToolTimeout)]

\* ExecutePlan up to its loop: the empty check, the parse, the shape, the length
EPEnter(q0) ==
    LET q == [q0 EXCEPT !.executing = TRUE]
        u == JsonUnmarshal(q.plan)
        p == PlanOf(u.v)
    IN  IF q.plan = EmptyText
        THEN EPReturn(q, ErrorReply(CodeInvalidParams, <<"ExecutePlan received empty plan", <<>>>>))
        ELSE IF ~u.ok
        THEN EPReturn(q, ErrorReply(CodeParseError, <<"failed to parse plan JSON", <<>>>>))
        ELSE IF ~p.ok
        THEN EPReturn(q, ErrorReply(CodeParseError, <<p.msg, <<>>>>))
        ELSE IF Len(p.plan) = 0
        THEN EPReturn(q, ErrorReply(CodeInvalidParams, <<"received empty plan from LLM", <<>>>>))
        ELSE [q EXCEPT !.acts = p.plan, !.idx = 1, !.pc = "ep_loop",
                       !.ctx = WithTimeout(ToolTimeout)]

\* action["parameters"].(map[string]interface{}): nil unless it is an object
ParametersOf(action) ==
    IF action.parameters.k = "obj" THEN action.parameters ELSE NilMap

\* EPAction as it would be if an unknown action were skipped (continue)
EPActionSkipUnknown(q, t) ==
    LET action == q.acts[q.idx]
        ok == action.action.k = "str"
        actionType == IF ok THEN TrimPrefix(action.action.s, FunctionsPrefix) ELSE <<>>
    IN  IF ~ok \/ action.action.s = <<>>
        THEN EPReturn(q, ErrorReply(CodeInvalidParams, <<"invalid action format", <<>>>>))
        ELSE IF actionType \in DOMAIN t
        THEN [q EXCEPT !.log = Append(@, Invocation("plan", q.idx, actionType,
                                                    t[actionType].Handler, ParametersOf(action), q.ctx)),
                       !.pc = "ep_handler"]
        ELSE IF q.idx < Len(q.acts)
        THEN [q EXCEPT !.idx = @ + 1]
        ELSE EPReturn(q, ResultReply(PlanSuccess))

\* EPAction as it would be if the handler were started without waiting for it
\* (go tool.Handler(...)): the loop moves straight on to the next action
EPActionNoWait(q, t) ==
    LET action == q.acts[q.idx]
        ok == action.action.k = "str"
        actionType == IF ok THEN TrimPrefix(action.action.s, FunctionsPrefix) ELSE <<>>
    IN  IF ~ok \/ action.action.s = <<>>
        THEN EPReturn(q, ErrorReply(CodeInvalidParams, <<"invalid action format", <<>>>>))
        ELSE IF actionType \in DOMAIN t
        THEN LET started == [q EXCEPT !.log = Append(@, Invocation("plan", q.idx, actionType,
                                                    t[actionType].Handler, ParametersOf(action), q.ctx))]
             IN  IF q.idx < Len(q.acts)
                 THEN [started EXCEPT !.idx = @ + 1]
                 ELSE EPReturn(started, ResultReply(PlanSuccess))
        ELSE EPReturn(q, ErrorReply(CodeMethodNotFound, <<"unknown action: %s", actionType>>))

\* EPAction as it would be if the "functions." prefix were not stripped
EPActionNoStrip(q, t) ==
    LET action == q.acts[q.idx]
        ok == action.action.k = "str"
        actionType == IF ok THEN action.action.s ELSE <<>>
    IN  IF ~ok \/ action.action.s = <<>>
        THEN EPReturn(q, ErrorReply(CodeInvalidParams, <<"invalid action format", <<>>>>))
        ELSE IF actionType \in DOMAIN t
        THEN [q EXCEPT !.log = Append(@, Invocation("plan", q.idx, actionType,
                                                    t[actionType].Handler, ParametersOf(action), q.ctx)),
                       !.pc = "ep_handler"]
        ELSE EPReturn(q, ErrorReply(CodeMethodNotFound, <<"unknown action: %s", actionType>>))

\* EPAction as it would be if an action without a usable name were skipped
EPActionSkipInvalid(q, t) ==
    LET action == q.acts[q.idx]
        ok == action.action.k = "str"
        actionType == IF ok THEN TrimPrefix(action.action.s, FunctionsPrefix) ELSE <<>>
    IN  IF ~ok \/ action.action.s = <<>>
        THEN IF q.idx < Len(q.acts)
             THEN [q EXCEPT !.idx = @ + 1]
             ELSE EPReturn(q, ResultReply(PlanSuccess))
        ELSE IF actionType \in DOMAIN t
        THEN [q EXCEPT !.log = Append(@, Invocation("plan", q.idx, actionType,
                                                    t[actionType].Handler, ParametersOf(action), q.ctx)),
                       !.pc = "ep_handler"]
        ELSE EPReturn(q, ErrorReply(CodeMethodNotFound, <<"unknown action: %s", actionType>>))

\* one iteration of the loop, up to the call of the handler
EPAction(q, t) ==
    LET action == q.acts[q.idx]
        ok == action.action.k = "str"
        actionType == IF ok THEN TrimPrefix(action.action.s, FunctionsPrefix) ELSE <<>>
    IN  IF ~ok \/ action.action.s = <<>>
        THEN EPReturn(q, ErrorReply(CodeInvalidParams, <<"invalid action format", <<>>>>))
        ELSE IF actionType \in DOMAIN t
        THEN [q EXCEPT !.log = Append(@, Invocation("plan", q.idx, actionType,
                                                    t[actionType].Handler, ParametersOf(action), q.ctx)),
                       !.pc = "ep_handler"]
        ELSE EPReturn(q, ErrorReply(CodeMethodNotFound, <<"unknown action: %s", actionType>>))

\* EPAfterHandler as it would be if a handler's error were ignored
EPAfterHandlerIgnoreErr(q0, ok) ==
    LET q == [q0 EXCEPT !.log = Returned(@, ok)]
    IN  IF q.idx < Len(q.acts)
        THEN [q EXCEPT !.idx = @ + 1, !.pc = "ep_loop"]
        ELSE EPReturn(q, ResultReply(PlanSuccess))

\* the handler returned: an error ends the plan, nil moves to the next action,
\* and after the last action the success payload is written
EPAfterHandler(q0, ok) ==
    LET q == [q0 EXCEPT !.log = Returned(@, ok)]
        name == q.log[Len(q.log)].name
    IN  IF ~ok
        THEN EPReturn(q, ErrorReply(CodeExecution, <<"failed to execute tool %s", name>>))
        ELSE IF q.idx < Len(q.acts)
        THEN [q EXCEPT !.idx = @ + 1, !.pc = "ep_loop"]
        ELSE EPReturn(q, ResultReply(PlanSuccess))

\* Server.ExecutePlan called over RPC
ExecutePlan(r, planJSON) ==
    /\ req[r].pc = "idle"
    /\ req' = [req EXCEPT ![r] = EPEnter([Idle EXCEPT !.kind = "ExecutePlan", !.plan = planJSON])]
    /\ UNCHANGED <<tools, services, systemPromptOverride, latest, owner, loader>>

\* ExecutePlan's loop body for the next action
EP_Action(r) ==
    /\ req[r].pc = "ep_loop"
    /\ req' = [req EXCEPT ![r] = EPAction(req[r], tools)]
    /\ UNCHANGED <<tools, services, systemPromptOverride, latest, owner, loader>>

\* tool.Handler(ctx, s, parameters) returns in ExecutePlan, after d time units
\* of the plan's context
EP_HandlerReturn(r, ok, d) ==
    /\ req[r].pc = "ep_handler"
    /\ req' = [req EXCEPT ![r] = EPAfterHandler(Elapse(req[r], d), ok)]
    /\ UNCHANGED <<tools, services, systemPromptOverride, latest, owner, loader>>

---------------------------------------------------------------------------
(* CallTool *)

\* CTEnter as it would be if an unknown tool were reported as invalid parameters
CTEnterUnknownAsInvalid(q, t, args) ==
    IF args.ToolName \in DOMAIN t
    THEN [q EXCEPT !.log = Append(@, Invocation("direct", 1, args.ToolName,
                                                t[args.ToolName].Handler, args.Parameters,
                                                WithTimeout(ToolTimeout))),
                   !.pc = "ct_handler"]
    ELSE [q EXCEPT !.reply = ErrorReply(CodeInvalidParams, <<"unknown tool: %s", args.ToolName>>),
                   !.pc = "returned"]

\* Server.CallTool up to the call of the handler
CTEnter(q, t, args) ==
    IF args.ToolName \in DOMAIN t
    THEN [q EXCEPT !.log = Append(@, Invocation("direct", 1, args.ToolName,
                                                t[args.ToolName].Handler, args.Parameters,
                                                WithTimeout(ToolTimeout))),
                   !.pc = "ct_handler"]
    ELSE [q EXCEPT !.reply = ErrorReply(CodeMethodNotFound, <<"unknown tool: %s", args.ToolName>>),
                   !.pc = "returned"]

\* CTAfterHandler as it would be if the handler's error were dropped
CTAfterHandlerIgnoreErr(q0, ok) ==
    LET q == [q0 EXCEPT !.log = Returned(@, ok), !.pc = "returned"]
        name == q.log[Len(q.log)].name
    IN  [q EXCEPT !.reply = ResultReply(ToolSuccess(name))]

\* Server.CallTool after the handler returned
CTAfterHandler(q0, ok) ==
    LET q == [q0 EXCEPT !.log = Returned(@, ok), !.pc = "returned"]
        name == q.log[Len(q.log)].name
    IN  IF ~ok
        THEN [q EXCEPT !.reply = ErrorReply(CodeExecution, <<"failed to execute tool %s", name>>)]
        ELSE [q EXCEPT !.reply = ResultReply(ToolSuccess(name))]

\* Server.CallTool called over RPC
CallTool(r, args) ==
    /\ req[r].pc = "idle"
    /\ req' = [req EXCEPT ![r] = CTEnter([Idle EXCEPT !.kind = "CallTool"], tools, args)]
    /\ UNCHANGED <<tools, services, systemPromptOverride, latest, owner, loader>>

\* tool.Handler(ctx, s, args.Parameters) returns in CallTool
CT_HandlerReturn(r, ok) ==
    /\ req[r].pc = "ct_handler"
    /\ req' = [req EXCEPT ![r] = CTAfterHandler(req[r], ok)]
    /\ UNCHANGED <<tools, services, systemPromptOverride, latest, owner, loader>>

---------------------------------------------------------------------------
(* CallLLM and invokeTool *)

\* CallLLMReturn as it would be if the clear were not deferred but made only
\* after ExecutePlan: a failed model call returns without it
CallLLMReturnNoClearOnError(q, err) ==
    IF q.kind = "ProcessInstruction"
    THEN IF err # NoErr
         THEN [q EXCEPT !.err = "ProcessInstruction: failed to call LLM", !.pc = "returned"]
         ELSE EPEnter(q)
    ELSE [q EXCEPT !.err = err, !.pc = "returned"]

\* CallLLM returns to its caller.  ProcessInstruction wraps an error and
\* returns it (its deferred clear is then due); otherwise it hands the plan
\* string to ExecutePlan.  Called over RPC, CallLLM's return ends the request.
CallLLMReturn(q, err) ==
    IF q.kind = "ProcessInstruction"
    THEN IF err # NoErr
         THEN [q EXCEPT !.err = "ProcessInstruction: failed to call LLM", !.pc = "pi_clear"]
         ELSE EPEnter(q)
    ELSE [q EXCEPT !.err = err, !.pc = "returned"]

\* the loop over toolCalls moves on; after the last call CallLLM returns nil
FCNext(q) ==
    IF q.ci < Len(q.calls)
    THEN [q EXCEPT !.ci = @ + 1, !.pc = "fc_loop"]
    ELSE CallLLMReturn(q, NoErr)

\* the first error invokeTool returned in this request (it is only logged)
NoteFcErr(q, kind) ==
    IF q.fcErr = "none" THEN [q EXCEPT !.fcErr = kind] ELSE q

\* json.Unmarshal of the arguments into a map: an object or null parses
ArgumentsOf(text) ==
    LET u == JsonUnmarshal(text) IN
    IF u.ok /\ u.v.k \in {"obj", "null"}
    THEN [ok |-> TRUE, params |-> IF u.v.k = "obj" THEN u.v ELSE NilMap]
    ELSE [ok |-> FALSE, params |-> NilMap]

\* what GenerateContent's result makes of the request
LLMAnswer(q0, resp) ==
    LET q == [q0 EXCEPT !.answer = resp.kind] IN
    IF resp.kind = "error" THEN CallLLMReturn(q, "LLM API error")
    ELSE IF resp.kind = "nochoice" THEN CallLLMReturn(q, "LLM returned an empty response")
    ELSE IF Len(resp.toolCalls) > 0
    THEN [q EXCEPT !.calls = resp.toolCalls, !.ci = 1, !.pc = "fc_loop"]
    ELSE CallLLMReturn([q EXCEPT !.plan = resp.content], NoErr)

\* one iteration of the loop over toolCalls, up to the call of the handler:
\* a nil FunctionCall is skipped, an invokeTool error is logged and the loop goes on
FCStep(q, t) ==
    LET call == q.calls[q.ci]
        a == ArgumentsOf(call.Arguments)
    IN  IF call.isnil THEN FCNext(q)
        ELSE IF call.Name \notin DOMAIN t THEN FCNext(NoteFcErr(q, "notfound"))
        ELSE IF ~a.ok THEN FCNext(NoteFcErr(q, "badargs"))
        ELSE [q EXCEPT !.log = Append(@, Invocation("fc", q.ci, call.Name,
                                                    t[call.Name].Handler, a.params,
                                                    WithTimeout(ToolTimeout))),
                       !.pc = "fc_handler"]

\* the handler returned in invokeTool: on nil, CallLLM stores the
\* confirmation sentence in *reply and returns nil; on an error the loop goes on
FCAfterHandler(q0, ok) ==
    LET q == [q0 EXCEPT !.log = Returned(@, ok)]
        name == q.log[Len(q.log)].name
    IN  IF ok
        THEN CallLLMReturn([q EXCEPT !.plan = ConfirmText(name)], NoErr)
        ELSE FCNext(NoteFcErr(q, "handler"))

\* Server.CallLLM called over RPC
CallLLM(r, input) ==
    /\ req[r].pc = "idle"
    /\ req' = [req EXCEPT ![r] = [Idle EXCEPT !.kind = "CallLLM", !.instruction = input,
                                              !.pc = "llm_prompt"]]
    /\ UNCHANGED <<tools, services, systemPromptOverride, latest, owner, loader>>

\* CallLLM builds the prompt with utils.GetSystemPrompt() and calls the model
\* with context.Background()
CallLLM_Prompt(r) ==
    /\ req[r].pc = "llm_prompt"
    /\ req' = [req EXCEPT ![r].sysPrompt = GetSystemPrompt(systemPromptOverride),
                          ![r].llmCalls = @ + 1,
                          ![r].llmCtx = Background,
                          ![r].pc = "llm_wait"]
    /\ UNCHANGED <<tools, services, systemPromptOverride, latest, owner, loader>>

\* s.llm.GenerateContent returns
GenerateContent(r, resp) ==
    /\ req[r].pc = "llm_wait"
    /\ req' = [req EXCEPT ![r] = LLMAnswer(req[r], resp)]
    /\ UNCHANGED <<tools, services, systemPromptOverride, latest, owner, loader>>

\* Server.invokeTool for the next tool call
invokeTool(r) ==
    /\ req[r].pc = "fc_loop"
    /\ req' = [req EXCEPT ![r] = FCStep(req[r], tools)]
    /\ UNCHANGED <<tools, services, systemPromptOverride, latest, owner, loader>>

\* tool.Handler(ctx, s, params) returns in invokeTool
FC_HandlerReturn(r, ok) ==
    /\ req[r].pc = "fc_handler"
    /\ req' = [req EXCEPT ![r] = FCAfterHandler(req[r], ok)]
    /\ UNCHANGED <<tools, services, systemPromptOverride, latest, owner, loader>>

---------------------------------------------------------------------------
(* ProcessInstruction *)

\* Classify as it would be if the tools query were tested first
ClassifyToolsFirst(instruction) ==
    LET lowerInst == ToLower(instruction) IN
    IF IsListToolsQuery(lowerInst) THEN "tools"
    ELSE IF IsListServicesQuery(lowerInst) THEN "services"
    ELSE "plan"

\* the three outcomes of classification, tested in the code's order
Classify(instruction) ==
    LET lowerInst == ToLower(instruction) IN
    IF IsListServicesQuery(lowerInst) THEN "services"
    ELSE IF IsListToolsQuery(lowerInst) THEN "tools"
    ELSE "plan"

\* the lists the tools-query branch can marshal
ToolsAnswer(lowerInst) ==
    LET e == ExtractServiceName(lowerInst) IN
    IF e.found THEN listToolsForService(e.name) ELSE listTools

\* Server.ProcessInstruction up to SetSystemPromptOverride: a meta query is
\* answered and returns; otherwise utils.GetSystemPrompt() is read
ProcessInstruction(r, instruction) ==
    LET q == [Idle EXCEPT !.kind = "ProcessInstruction", !.instruction = instruction]
        c == Classify(instruction)
    IN  /\ req[r].pc = "idle"
        /\ IF c = "services"
           THEN \E list \in listServices :
                    req' = [req EXCEPT ![r] = [q EXCEPT !.reply = ResultReply(MarshalStrings(list)),
                                                        !.pc = "returned"]]
           ELSE IF c = "tools"
           THEN \E list \in ToolsAnswer(ToLower(instruction)) :
                    req' = [req EXCEPT ![r] = [q EXCEPT !.reply = ResultReply(MarshalStrings(list)),
                                                        !.pc = "returned"]]
           ELSE req' = [req EXCEPT ![r] = [q EXCEPT !.universalPrompt = GetSystemPrompt(systemPromptOverride),
                                                    !.pc = "pi_set"]]
        /\ UNCHANGED <<tools, services, systemPromptOverride, latest, owner, loader>>

\* utils.SetSystemPromptOverride(universalPrompt), and the defer of the clear
SetSystemPromptOverride(r) ==
    /\ req[r].pc = "pi_set"
    /\ systemPromptOverride' = req[r].universalPrompt
    /\ req' = [req EXCEPT ![r].pc = "llm_prompt"]
    /\ UNCHANGED <<tools, services, latest, owner, loader>>

\* the deferred utils.ClearSystemPromptOverride() as ProcessInstruction returns
ClearSystemPromptOverride(r) ==
    /\ req[r].pc = "pi_clear"
    /\ systemPromptOverride' = NoOverride
    /\ req' = [req EXCEPT ![r].pc = "returned"]
    /\ UNCHANGED <<tools, services, latest, owner, loader>>

---------------------------------------------------------------------------
(* Transport *)

\* StartRPCServer's handler after the call returned: it writes the error
\* (http.Error) or the marshalled reply, and the request is over
Respond(r) ==
    /\ req[r].pc = "returned"
    /\ req' = [req EXCEPT ![r] = Idle]
    /\ UNCHANGED <<tools, services, systemPromptOverride, latest, owner, loader>>

---------------------------------------------------------------------------
(* Specification *)

Next ==
    \/ \E n \in HostToolNames, d \in Descriptions, h \in Handlers : RegisterTool(n, d, h)
    \/ \E svc \in ServiceObjs : RegisterService(svc)
    \/ \E r \in Requests, i \in Instructions : ProcessInstruction(r, i)
    \/ \E r \in Requests : SetSystemPromptOverride(r)
    \/ \E r \in Requests, i \in {InstPlan} : CallLLM(r, i)
    \/ \E r \in Requests : CallLLM_Prompt(r)
    \/ \E r \in Requests, resp \in LLMResponses : GenerateContent(r, resp)
    \/ \E r \in Requests : invokeTool(r)
    \/ \E r \in Requests, ok \in BOOLEAN : FC_HandlerReturn(r, ok)
    \/ \E r \in Requests, p \in PlanTexts : ExecutePlan(r, p)
    \/ \E r \in Requests : EP_Action(r)
    \/ \E r \in Requests, ok \in BOOLEAN, d \in HandlerTimes : EP_HandlerReturn(r, ok, d)
    \/ \E r \in Requests, a \in ToolCallArgs : CallTool(r, a)
    \/ \E r \in Requests, ok \in BOOLEAN : CT_HandlerReturn(r, ok)
    \/ \E r \in Requests : ClearSystemPromptOverride(r)
    \/ \E r \in Requests : Respond(r)

Spec == Init /\ [][Next]_vars

\* Concurrent ProcessInstruction requests: the transport serves each request
\* on its own goroutine, here MaxRequests of them over an empty registry.  The
\* model's answers are those that end a request without a handler call.
InitConc ==
    /\ tools = EmptyMap
    /\ services = EmptyMap
    /\ systemPromptOverride = NoOverride
    /\ req = [r \in 1..MaxRequests |-> Idle]
    /\ latest = EmptyMap
    /\ owner = EmptyMap
    /\ loader = NotLoaded

ConcInstructions == {InstPlan, InstServices}
ConcResponses ==
    {resp \in LLMResponses :
        resp.kind \in {"error", "nochoice"}
        \/ (resp.kind = "content" /\ resp.content \in {EmptyText, ProseText})}

NextConc ==
    \/ \E r \in Requests, i \in ConcInstructions : ProcessInstruction(r, i)
    \/ \E r \in Requests : SetSystemPromptOverride(r)
    \/ \E r \in Requests : CallLLM_Prompt(r)
    \/ \E r \in Requests, resp \in ConcResponses : GenerateContent(r, resp)
    \/ \E r \in Requests : ClearSystemPromptOverride(r)
    \/ \E r \in Requests : Respond(r)

SpecConc == InitConc /\ [][NextConc]_vars

\* Startup: NewServer's call of reg.RegisterToolsFromConfig, by either loader
\* of the source, over the configurations of the bounded set
NextLoad ==
    \/ ~loader.done /\ \E cfg \in Configs : RegisterToolsFromConfig(cfg)
    \/ ~loader.done /\ \E cfg \in Configs : RegisterToolsFromConfigPlugin(cfg)

SpecLoad == Init /\ [][NextLoad]_vars

---------------------------------------------------------------------------
(* Properties *)

\* the call has produced its outcome: it returned, or only the deferred clear is left
Done(q) == q.pc \in {"pi_clear", "returned"}

\* the handler calls ExecutePlan made in a request
PlanLog(q) == SelectSeq(q.log, LAMBDA e : e.via = "plan")

\* the action is well formed: its action field is a non-empty string
WellFormed(action) == action.action.k = "str" /\ action.action.s # <<>>

\* the tool name a well-formed action resolves to
ResolvedName(action) == TrimPrefix(action.action.s, FunctionsPrefix)

\* ExecutePlan is about to process an action of request r
AtAction(r) == req[r].pc = "ep_loop"

\* before action k is processed, the handlers of actions 1..k-1 have run
\* once each, in order, and returned nil
EarlierActionsRanOnce(q) ==
    /\ Len(PlanLog(q)) = q.idx - 1
    /\ \A i \in 1..Len(PlanLog(q)) :
          /\ PlanLog(q)[i].idx = i
          /\ PlanLog(q)[i].st = "ok"
          /\ PlanLog(q)[i].name = ResolvedName(q.acts[i])

\* once the call has its outcome the request invokes no handler any more
NoInvocationAfterDone ==
    \A r \in Requests :
        Done(req[r]) => (req'[r].log = req[r].log \/ req'[r] = Idle)

\* C1: in ExecutePlan, when actions 1..k-1 resolved to registered tools whose
\* handlers succeeded and action k names an unregistered tool, the reply
\* carries -32601, the handlers of actions 1..k-1 have each been invoked
\* exactly once (nothing is rolled back), and no handler of action k or of a
\* later action is ever invoked.
C1_UnknownActionStops ==
    /\ [](\A r \in Requests : AtAction(r) => EarlierActionsRanOnce(req[r]))
    /\ [][ /\ NoInvocationAfterDone
           /\ \A r \in Requests :
                (/\ AtAction(r)
                 /\ WellFormed(req[r].acts[req[r].idx])
                 /\ ResolvedName(req[r].acts[req[r].idx]) \notin DOMAIN tools
                 /\ req'[r] # req[r])
                => /\ Done(req'[r])
                   /\ req'[r].reply.Error.Code = CodeMethodNotFound
                   /\ req'[r].reply.Result = NilRaw
                   /\ req'[r].log = req[r].log ]_vars

\* C1 witness: a plan whose first action ran and whose second action was
\* unknown has been answered with -32601
C1_Witness ==
    \E r \in Requests :
        /\ Done(req[r]) /\ req[r].executing
        /\ req[r].idx = 2 /\ Len(PlanLog(req[r])) = 1
        /\ req[r].reply.Error.Code = CodeMethodNotFound

\* C2: in ExecutePlan, when the handler of action k returns an error the
\* reply carries -32000 with a message naming the tool of action k, no
\* handler of a later action is invoked, and a plan has at most one failed
\* handler.
C2_HandlerErrorStops ==
    /\ [](\A r \in Requests :
            Cardinality({i \in 1..Len(PlanLog(req[r])) : PlanLog(req[r])[i].st = "err"}) <= 1)
    /\ [][ /\ NoInvocationAfterDone
           /\ \A r \in Requests :
                (/\ req[r].pc = "ep_handler"
                 /\ req'[r] # req[r]
                 /\ req'[r].log[Len(req'[r].log)].st = "err")
                => /\ Done(req'[r])
                   /\ req'[r].reply.Error.Code = CodeExecution
                   /\ req'[r].reply.Error.Message[2] = ResolvedName(req[r].acts[req[r].idx])
                   /\ req'[r].reply.Result = NilRaw
                   /\ Len(req'[r].log) = Len(req[r].log) ]_vars

\* C2 witness: the first handler of a two-action plan failed and the plan
\* was answered with -32000
C2_Witness ==
    \E r \in Requests :
        /\ Done(req[r]) /\ req[r].executing
        /\ Len(req[r].acts) = 2 /\ req[r].idx = 1
        /\ Len(PlanLog(req[r])) = 1 /\ PlanLog(req[r])[1].st = "err"
        /\ req[r].reply.Error.Code = CodeExecution

\* C3: within one ExecutePlan call handlers are invoked in plan order, each
\* action's handler at most once, and the handler of a later action is not
\* started before the earlier one returned: only the last invocation of the
\* log can be running, and only while the call waits for it.
C3_SequentialInOrder ==
    \A r \in Requests :
        LET l == PlanLog(req[r]) IN
        /\ \A i \in 1..Len(l) :
              /\ l[i].idx \in 1..Len(req[r].acts)
              /\ i < Len(l) => (l[i].idx < l[i + 1].idx /\ l[i].st # "running")
        /\ \A i \in 1..Len(l) :
              l[i].st = "running" => (req[r].pc = "ep_handler" /\ l[i].idx = req[r].idx)

\* C3 witness: the second action's handler is running after the first returned
C3_Witness ==
    \E r \in Requests :
        /\ req[r].pc = "ep_handler"
        /\ Len(PlanLog(req[r])) = 2
        /\ PlanLog(req[r])[1].st = "ok"
        /\ PlanLog(req[r])[2].st = "running"

\* C7: re-registration is last-write-wins: the registry holds exactly one
\* entry per registered name, that entry carries the handler of the most
\* recent RegisterTool call for the name, and every handler call that
\* ExecutePlan, CallTool or invokeTool starts uses that handler.
C7_LastWriteWins ==
    /\ [](/\ DOMAIN tools = DOMAIN latest
          /\ \A n \in DOMAIN tools : tools[n].Name = n /\ tools[n].Handler = latest[n])
    /\ [][ \A r \in Requests :
             Len(req'[r].log) = Len(req[r].log) + 1
             => LET e == req'[r].log[Len(req'[r].log)] IN
                /\ e.name \in DOMAIN latest
                /\ e.handler = latest[e.name] ]_vars

\* C7 witness: within one plan tool a ran with handler h1, was registered
\* again with h2, and ran with h2
C7_Witness ==
    \E r \in Requests :
        /\ Len(req[r].log) = 2
        /\ req[r].log[1].name = ToolA /\ req[r].log[1].handler = "h1"
        /\ req[r].log[2].name = ToolA /\ req[r].log[2].handler = "h2"

\* the request went through ProcessInstruction and has returned to the transport
ReturnedPI(q) == q.kind = "ProcessInstruction" /\ q.pc = "returned"

\* a function call of the model's answer whose handler returned nil
FunctionCallSucceeded(q) ==
    \E i \in 1..Len(q.log) : q.log[i].via = "fc" /\ q.log[i].st = "ok"

\* C4: when the model answers with a function call and the tool's handler
\* succeeds, ProcessInstruction finishes successfully with the confirmation
\* of single-tool execution: the request does not enter ExecutePlan, the
\* model is not called again, and the reply carries no error.
C4_FunctionCallShortCircuit ==
    \A r \in Requests :
        (ReturnedPI(req[r]) /\ req[r].answer = "calls" /\ FunctionCallSucceeded(req[r]))
        => /\ req[r].err = NoErr
           /\ req[r].reply.Error = NoError
           /\ ~req[r].executing
           /\ req[r].llmCalls = 1

\* the request failed at the dispatcher level: the model call failed, or the
\* call produced neither a result nor an error-free return
DispatcherFailure(q) ==
    \/ q.answer \in {"error", "nochoice"}
    \/ q.err # NoErr
    \/ q.reply.Result = NilRaw

\* C5: every dispatcher-level failure of a ProcessInstruction, ExecutePlan
\* or CallTool request reaches the transport as an RPCResponse whose error
\* field is set, never as a returned Go error; a failed model call is an
\* execution error inside the envelope.
C5_FailuresStayInEnvelope ==
    \A r \in Requests :
        (req[r].pc = "returned" /\ req[r].kind # "CallLLM" /\ DispatcherFailure(req[r]))
        => /\ req[r].err = NoErr
           /\ req[r].reply.Error # NoError
           /\ (req[r].answer \in {"error", "nochoice"} => req[r].reply.Error.Code = CodeExecution)

\* the handler calls made after the first one that returned an error
CallsAfterFirstError(q) ==
    {i \in 1..Len(q.log) : \E j \in 1..(i - 1) : q.log[j].st = "err"}

\* C6: in the function-call path too a failed handler (or an unknown tool)
\* aborts the request: no further handler is invoked and the request is
\* reported with -32000 (handler failure) or -32601 (unknown tool).
C6_FunctionCallFailureAborts ==
    \A r \in Requests :
        /\ (ReturnedPI(req[r]) /\ req[r].fcErr = "handler")
           => (req[r].reply.Error.Code = CodeExecution /\ CallsAfterFirstError(req[r]) = {})
        /\ (ReturnedPI(req[r]) /\ req[r].fcErr = "notfound")
           => (req[r].reply.Error.Code = CodeMethodNotFound /\ req[r].log = <<>>)

ToUpperChar(c) ==
    IF \E i \in 1..Len(LowerCase) : LowerCase[i] = c
    THEN UpperCase[CHOOSE i \in 1..Len(LowerCase) : LowerCase[i] = c]
    ELSE c

\* the letter-case variants of a service name that the queries use
CaseVariants(name) ==
    {name, ToLower(name), [i \in 1..Len(name) |-> ToUpperChar(name[i])]}

\* the elements of a marshalled list; null has none
ElementsOf(text) ==
    IF text.t = "json" /\ text.v.k = "arr" THEN {text.v.e[i] : i \in 1..Len(text.v.e)} ELSE {}

\* the lines of the registered tools that a service registered, by lower-cased service name
ToolsOfService(lowerName) ==
    {ToolLine(tools[n]) : n \in {m \in DOMAIN tools : owner[m] # <<>> /\ ToLower(owner[m]) = lowerName}}

\* C8: filtering by service is case-insensitive and effective: a tool that a
\* service registered is returned by listToolsForService for every
\* letter-case variant of the service's name.
C8_ServiceFilterFindsTools ==
    \A n \in DOMAIN tools :
        owner[n] # <<>> =>
            \A query \in CaseVariants(owner[n]) :
                \A list \in listToolsForService(query) :
                    \E i \in 1..Len(list) : list[i] = ToolLine(tools[n])

\* ProcessInstruction answers instruction `inst` for request r in this step
Answers(r, inst) ==
    /\ req[r].pc = "idle"
    /\ req'[r].kind = "ProcessInstruction"
    /\ req'[r].instruction = inst

\* C9: a tools query that mentions git is answered, without a model call,
\* with exactly the registered tools that belong to service git.
C9_GitToolsListed ==
    [][ \A r \in Requests :
          (/\ Answers(r, InstToolsGit)
           /\ IsListToolsQuery(ToLower(InstToolsGit)))
          => /\ req'[r].pc = "returned"
             /\ ExtractServiceName(ToLower(InstToolsGit)).name = StrGit
             /\ ElementsOf(req'[r].reply.Result) = ToolsOfService(StrGit)
             /\ req'[r].llmCalls = 0 ]_vars

\* C10: every instruction the services-query predicate accepts is answered
\* with the JSON array of the names of the registered services, whatever
\* their number, without a model call and without a handler call.
C10_ServicesListed ==
    [][ \A r \in Requests : \A inst \in Instructions :
          (Answers(r, inst) /\ IsListServicesQuery(ToLower(inst)))
          => /\ req'[r].pc = "returned"
             /\ \E list \in listServices : req'[r].reply.Result = JsonText(JArr(list))
             /\ req'[r].llmCalls = 0
             /\ req'[r].log = <<>> ]_vars

\* the request's plan text is a single JSON object
IsObjPlan(q) == q.plan.t = "json" /\ q.plan.v.k = "obj"

\* the same request, had its plan been the one-element array holding the object
ArrayTwin(q) ==
    IF IsObjPlan(q) THEN [q EXCEPT !.plan = JsonText(JArr(<<q.plan.v>>))] ELSE q

\* C11: ExecutePlan treats a plan that is a single JSON object as the
\* one-element array holding that object: entering ExecutePlan with either
\* text leaves the same action list, position and reply, and every later
\* step of the object's run is the step the array's run takes, with the same
\* handler, the same parameters and the same reply.
C11_ObjectAsOneElementArray ==
    [][ \A r \in Requests :
          (IsObjPlan(req'[r]) /\ req'[r].executing /\ req'[r] # req[r])
          => IF ~req[r].executing
             THEN EPEnter(ArrayTwin(req'[r])) = ArrayTwin(req'[r])
             ELSE IF req[r].pc = "ep_loop"
             THEN ArrayTwin(req'[r]) = EPAction(ArrayTwin(req[r]), tools)
             ELSE IF req[r].pc = "ep_handler"
             THEN \E ok \in BOOLEAN, d \in HandlerTimes :
                     ArrayTwin(req'[r]) = EPAfterHandler(Elapse(ArrayTwin(req[r]), d), ok)
             ELSE req'[r].log = req[r].log /\ req'[r].reply = req[r].reply ]_vars

\* C11 witness: a plan given as a single object ran its handler with the
\* object's parameters and was answered with the success payload
C11_Witness ==
    \E r \in Requests :
        /\ IsObjPlan(req[r]) /\ Done(req[r])
        /\ Len(PlanLog(req[r])) = 1
        /\ PlanLog(req[r])[1].params = ParametersOf(req[r].plan.v)
        /\ req[r].reply = ResultReply(PlanSuccess)

\* the same request, had its current action been named with one more
\* "functions." in front
PrefixedTwin(q) ==
    [q EXCEPT !.acts[q.idx].action.s = <<FunctionsPrefix>> \o @]

\* two runs agree on what was invoked and on what was replied
SameOutcome(a, b) ==
    a.pc = b.pc /\ a.idx = b.idx /\ a.log = b.log /\ a.reply = b.reply

\* the action's name is a string
NamedAction(action) == action.action.k = "str"

\* a name that is not empty and does not itself begin with "functions."
PlainName(name) == name # <<>> /\ ~HasPrefix(name, FunctionsPrefix)

\* C12 as stated: for every name X (the empty name and names that begin with
\* "functions." included) and every registry, ExecutePlan does with the
\* action "functions.X" what it does with the action "X": the same handler
\* is invoked or the same reply is written.
C12_PrefixIrrelevantForAnyName ==
    [][ \A r \in Requests :
          (AtAction(r) /\ NamedAction(req[r].acts[req[r].idx]) /\ req'[r] # req[r])
          => SameOutcome(req'[r], EPAction(PrefixedTwin(req[r]), tools)) ]_vars

\* C12 amended: for every non-empty name X that does not itself begin with
\* "functions." and every registry, ExecutePlan does with the action
\* "functions.X" what it does with the action "X"; and an action that
\* carries the prefix invokes the handler registered under the rest of it.
C12_PrefixIrrelevantForPlainName ==
    [][ \A r \in Requests :
          (AtAction(r) /\ NamedAction(req[r].acts[req[r].idx]) /\ req'[r] # req[r])
          => LET name == req[r].acts[req[r].idx].action.s IN
             /\ PlainName(name)
                => SameOutcome(req'[r], EPAction(PrefixedTwin(req[r]), tools))
             /\ (HasPrefix(name, FunctionsPrefix) /\ Len(req'[r].log) > Len(req[r].log))
                => /\ <<FunctionsPrefix>> \o req'[r].log[Len(req'[r].log)].name = name
                   /\ req'[r].log[Len(req'[r].log)].handler = tools[Tail(name)].Handler ]_vars

\* C12 witness: an action named "functions.a" had the handler registered
\* under "a" invoked
C12_Witness ==
    \E r \in Requests : \E i \in 1..Len(PlanLog(req[r])) :
        LET e == PlanLog(req[r])[i] IN
        /\ req[r].acts[e.idx].action.s = <<FunctionsPrefix>> \o ToolA
        /\ e.name = ToolA

\* the empty plan inputs: the empty string, the empty array, and a single
\* object without a recognizable action
EmptyPlanInputs ==
    {EmptyText, JsonText(JArr(<<>>))} \cup {JsonText(o) : o \in {a \in ActionObjs : ~WellFormed(a)}}

\* C13: an empty plan input is answered with -32602 and nothing else: while
\* ExecutePlan works on it no handler is invoked or waited for, and its
\* outcome is an error reply with code -32602, no result and no Go error.
C13_EmptyPlanInvalidParams ==
    \A r \in Requests :
        (req[r].executing /\ req[r].plan \in EmptyPlanInputs)
        => /\ PlanLog(req[r]) = <<>>
           /\ req[r].pc \in {"ep_loop", "pi_clear", "returned"}
           /\ Done(req[r]) => /\ req[r].reply.Error.Code = CodeInvalidParams
                              /\ req[r].reply.Result = NilRaw
                              /\ req[r].err = NoErr

\* C13 witness: the plan {} (an object without an action) was answered -32602
C13_Witness ==
    \E r \in Requests :
        /\ req[r].kind = "ExecutePlan" /\ Done(req[r])
        /\ req[r].plan = JsonText(JObj(JAbsent, JAbsent, ""))
        /\ req[r].reply.Error.Code = CodeInvalidParams

\* the result field carries a payload: it is not the nil RawMessage, not the
\* empty text, and not the text null (which encoding/json writes for the nil
\* RawMessage too, so that a reader of the response sees no result)
Populated(result) == result \notin {NilRaw, EmptyText, JsonText(JNull)}

\* the call wrote *reply
ReplyWritten(q) == q.reply # ZeroReply

\* C14: every RPCResponse written by ExecutePlan, CallTool or
\* ProcessInstruction has exactly one of result and error populated: a reply
\* with an error has no result, and a reply without an error has a
\* non-empty result.
C14_ExactlyOneOfResultAndError ==
    \A r \in Requests :
        (req[r].kind \in {"ExecutePlan", "CallTool", "ProcessInstruction"} /\ ReplyWritten(req[r]))
        => /\ req[r].reply.Error # NoError => req[r].reply.Result = NilRaw
           /\ req[r].reply.Error = NoError => Populated(req[r].reply.Result)

\* request r is the only one in flight
Alone(r) == \A o \in Requests \ {r} : req[o].pc = "idle"

\* the request is in its Planning or Executing phase, after its set and
\* before its deferred clear has run
BetweenSetAndClear(q) ==
    q.kind = "ProcessInstruction" /\ q.pc \notin {"idle", "pi_set", "returned"}

\* C15: with no other request in flight, the override a ProcessInstruction
\* call sets is in place from before its model call until the call returns
\* (the model call reads it), and it is empty once the call has returned,
\* whether the model call failed, the plan failed or the plan succeeded; it
\* is empty whenever no request is in flight.
C15_OverrideSetAndCleared ==
    /\ \A r \in Requests :
          Alone(r) =>
             /\ BetweenSetAndClear(req[r])
                => /\ systemPromptOverride = req[r].universalPrompt
                   /\ systemPromptOverride # NoOverride
                   /\ req[r].llmCalls > 0 => req[r].sysPrompt = req[r].universalPrompt
             /\ req[r].pc = "returned" => systemPromptOverride = NoOverride
    /\ (\A r \in Requests : req[r].pc = "idle") => systemPromptOverride = NoOverride

\* C15 witness: a ProcessInstruction call whose model call failed has
\* returned, and the override is empty
C15_Witness ==
    \E r \in Requests :
        /\ ReturnedPI(req[r]) /\ req[r].llmCalls = 1
        /\ req[r].answer = "error" /\ req[r].err # NoErr
        /\ systemPromptOverride = NoOverride

\* C16: under any interleaving of concurrent ProcessInstruction requests,
\* the override a request has set is still the value in place when its model
\* call is about to read it with GetSystemPrompt: no other request's set or
\* clear has changed it in between.
C16_OverrideHeldUntilModelCall ==
    \A r \in Requests :
        (req[r].kind = "ProcessInstruction" /\ req[r].pc = "llm_prompt")
        => systemPromptOverride = req[r].universalPrompt

\* the elements of a sequence
Range(seq) == {seq[i] : i \in 1..Len(seq)}

\* the tool entries of a configuration, as <<service index, tool index>>
AllPositions(cfg) ==
    UNION {{<<i, j>> : j \in 1..Len(cfg.services[i].tools)} : i \in 1..Len(cfg.services)}

\* the tool entry at a position
Entry(cfg, p) == cfg.services[p[1]].tools[p[2]]

\* the entry is enabled: its service is, and the tool is
EntryEnabled(cfg, p) == cfg.services[p[1]].enabled /\ Entry(cfg, p).enabled

\* configuration order
Before(p, q) == p[1] < q[1] \/ (p[1] = q[1] /\ p[2] < q[2])

\* C17: a disabled service or disabled tool entry is skipped without side
\* effect by RegisterToolsFromConfig, in either loader: its module reference
\* is never evaluated or opened, it is never registered (a tool of its name
\* is in the registry only if an enabled entry registered it), and it is
\* never the entry the load failed on.
C17_DisabledEntrySkipped ==
    loader.done =>
        \A p \in AllPositions(loader.cfg) :
            ~EntryEnabled(loader.cfg, p)
            => /\ p \notin Range(loader.opened)
               /\ p \notin Range(loader.registered)
               /\ Entry(loader.cfg, p).name \in DOMAIN tools
                  => \E q \in Range(loader.registered) :
                        /\ EntryEnabled(loader.cfg, q)
                        /\ Entry(loader.cfg, q).name = Entry(loader.cfg, p).name
               /\ loader.err # NoErr => loader.opened[Len(loader.opened)] # p

\* C18: loading is sequential in configuration order and fail-fast without
\* rollback.  Entries are loaded in configuration order and registered in
\* that order; an enabled entry whose module is broken makes the call return
\* an error; when the load failed on enabled entry i, every enabled entry
\* before i is registered and its tool is in the registry, entry i is not
\* registered, and no entry after i has been loaded or registered.
C18_FailFastNoRollback ==
    (loader.done /\ loader.cfg.ok) =>
        LET cfg == loader.cfg
            opened == loader.opened
            registered == loader.registered
        IN  /\ \A k \in 1..(Len(opened) - 1) : Before(opened[k], opened[k + 1])
            /\ \A k \in 1..(Len(registered) - 1) : Before(registered[k], registered[k + 1])
            /\ Range(registered) \subseteq Range(opened)
            /\ \A p \in AllPositions(cfg) :
                  (EntryEnabled(cfg, p) /\ Entry(cfg, p).plugin # "ok") => loader.err # NoErr
            /\ loader.err # NoErr
               => LET i == opened[Len(opened)] IN
                  /\ Entry(cfg, i).plugin # "ok"
                  /\ i \notin Range(registered)
                  /\ EntryEnabled(cfg, i)
                     => /\ \A p \in AllPositions(cfg) :
                              (EntryEnabled(cfg, p) /\ Before(p, i))
                              => /\ p \in Range(registered)
                                 /\ Entry(cfg, p).name \in DOMAIN tools
                                 /\ tools[Entry(cfg, p).name].Handler = "Handler"
                        /\ \A p \in AllPositions(cfg) :
                              Before(i, p) => p \notin Range(opened) \cup Range(registered)

\* C18 witness: the source-evaluation loader registered the first enabled
\* tool, failed on a later enabled tool and returned the error; the first
\* tool is still registered
C18_Witness ==
    /\ loader.done /\ loader.variant = "source" /\ loader.err # NoErr
    /\ Len(loader.registered) = 1
    /\ Len(loader.opened) = 2
    /\ EntryEnabled(loader.cfg, loader.opened[2])
    /\ Entry(loader.cfg, loader.registered[1]).name \in DOMAIN tools

\* C19: CallTool maps failures to the codes of plan execution.  A call for
\* an unregistered name is answered -32601 at once, with no handler invoked;
\* a call for a registered name invokes that tool's handler, once; when the
\* handler returns an error the reply carries -32000 and names the tool, and
\* when it returns nil the reply carries the success result and no error.
C19_CallToolOutcomes ==
    /\ [](\A r \in Requests :
            req[r].kind = "CallTool"
            => /\ Len(req[r].log) <= 1
               /\ req[r].pc = "returned"
                  => \/ /\ req[r].log = <<>>
                        /\ req[r].reply.Error.Code = CodeMethodNotFound
                        /\ req[r].reply.Result = NilRaw
                     \/ /\ Len(req[r].log) = 1 /\ req[r].log[1].st = "err"
                        /\ req[r].reply.Error.Code = CodeExecution
                        /\ req[r].reply.Error.Message[2] = req[r].log[1].name
                        /\ req[r].reply.Result = NilRaw
                     \/ /\ Len(req[r].log) = 1 /\ req[r].log[1].st = "ok"
                        /\ req[r].reply.Error = NoError
                        /\ req[r].reply.Result = ToolSuccess(req[r].log[1].name))
    /\ [][ \A r \in Requests :
             (req[r].pc = "idle" /\ req'[r].kind = "CallTool")
             => IF req'[r].log = <<>>
                THEN /\ req'[r].pc = "returned"
                     /\ req'[r].reply.Error.Message[2] \notin DOMAIN tools
                ELSE /\ req'[r].pc = "ct_handler"
                     /\ req'[r].log[1].name \in DOMAIN tools
                     /\ req'[r].log[1].handler = tools[req'[r].log[1].name].Handler
                     /\ req'[r].log[1].st = "running" ]_vars

\* C19 witness: a CallTool request whose handler returned an error was
\* answered with -32000
C19_Witness ==
    \E r \in Requests :
        /\ req[r].kind = "CallTool" /\ req[r].pc = "returned"
        /\ Len(req[r].log) = 1 /\ req[r].log[1].st = "err"
        /\ req[r].reply.Error.Code = CodeExecution

\* C20: every handler call and every model call is issued under an explicit
\* deadline, and every handler call has the full ceiling ahead of it: the
\* context handed to a handler by ExecutePlan, CallTool or invokeTool has a
\* deadline with ToolTimeout left, and the context handed to the model
\* client by CallLLM has a deadline.
C20_EveryCallUnderFullDeadline ==
    \A r \in Requests :
        /\ \A k \in 1..Len(req[r].log) :
              /\ req[r].log[k].ctx.deadline
              /\ req[r].log[k].ctx.left = ToolTimeout
        /\ req[r].llmCalls > 0 => req[r].llmCtx.deadline

\* a non-empty plan text that is no JSON
InvalidJSON(text) == text.t \notin {"json", "empty"}

\* a JSON plan text of the wrong shape: neither an object nor an array, or
\* an array with an element, at any position, that is not an object
BadShape(text) ==
    /\ text.t = "json"
    /\ \/ text.v.k \notin {"obj", "arr"}
       \/ /\ text.v.k = "arr"
          /\ \E i \in 1..Len(text.v.e) : text.v.e[i].k # "obj"

\* C21: the plan's shape is validated before anything is executed: for a
\* (non-empty) plan text that is invalid JSON, a JSON value that is neither
\* an object nor an array, or an array with a non-object element at any
\* position, ExecutePlan has its outcome at once, the reply carries -32700
\* and no result, and ExecutePlan invokes no handler.
C21_ShapeCheckedBeforeExecution ==
    \A r \in Requests :
        (req[r].executing /\ (InvalidJSON(req[r].plan) \/ BadShape(req[r].plan)))
        => /\ Done(req[r])
           /\ PlanLog(req[r]) = <<>>
           /\ req[r].reply.Error.Code = CodeParseError
           /\ req[r].reply.Result = NilRaw

\* C21 witness: a plan array whose first element is an action for the
\* registered tool a and whose second element is not an object was answered
\* -32700, and a's handler was not invoked
C21_Witness ==
    \E r \in Requests :
        /\ req[r].kind = "ExecutePlan" /\ Done(req[r])
        /\ req[r].plan = JsonText(JArr(<<JObj(JStr(ToolA), ParamsObj, ""), JNum>>))
        /\ ToolA \in DOMAIN tools
        /\ req[r].log = <<>>
        /\ req[r].reply.Error.Code = CodeParseError

\* the earlier actions' handlers have been invoked once each, in order, and
\* all of them returned nil
EarlierHandlersDone(q) ==
    /\ Len(PlanLog(q)) = q.idx - 1
    /\ \A i \in 1..Len(PlanLog(q)) : PlanLog(q)[i].idx = i /\ PlanLog(q)[i].st = "ok"

\* C22: an action whose action field is missing, empty or not a string fails
\* the plan with -32602 at the point it is reached: the handlers of the
\* earlier actions have been invoked once each and stay invoked, no handler
\* is invoked for it or after it.  An action of a registered tool whose
\* parameters field is absent is not an error: its handler is invoked, with
\* the nil (empty) parameter mapping.
C22_InvalidActionStops ==
    /\ [](\A r \in Requests : AtAction(r) => EarlierHandlersDone(req[r]))
    /\ [][ /\ NoInvocationAfterDone
           /\ \A r \in Requests :
                (AtAction(r) /\ req'[r] # req[r])
                => LET action == req[r].acts[req[r].idx] IN
                   /\ ~WellFormed(action)
                      => /\ Done(req'[r])
                         /\ req'[r].reply.Error.Code = CodeInvalidParams
                         /\ req'[r].reply.Result = NilRaw
                         /\ req'[r].log = req[r].log
                   /\ (/\ WellFormed(action)
                       /\ ResolvedName(action) \in DOMAIN tools
                       /\ action.parameters = JAbsent)
                      => /\ req'[r].pc = "ep_handler"
                         /\ Len(req'[r].log) = Len(req[r].log) + 1
                         /\ req'[r].log[Len(req'[r].log)].params = NilMap
                         /\ req'[r].reply = req[r].reply ]_vars

\* C22 witness: the first action, without parameters, had its handler
\* invoked with the nil mapping and succeed; the second action had no usable
\* name and the plan was answered -32602
C22_Witness ==
    \E r \in Requests :
        /\ Done(req[r]) /\ req[r].executing
        /\ req[r].idx = 2 /\ ~WellFormed(req[r].acts[2])
        /\ Len(PlanLog(req[r])) = 1
        /\ PlanLog(req[r])[1].st = "ok" /\ PlanLog(req[r])[1].params = NilMap
        /\ req[r].reply.Error.Code = CodeInvalidParams

\* the services-query and the tools-query predicate on the lower-cased instruction
AcceptsServices(inst) == IsListServicesQuery(ToLower(inst))
AcceptsTools(inst) == IsListToolsQuery(ToLower(inst))

\* C23: classification gives the services query precedence over the tools
\* query and both over planning.  An instruction the services predicate
\* accepts, whether or not the tools predicate accepts it too, is answered at
\* once with the names of the registered services; one only the tools
\* predicate accepts is answered at once with tool lines; and the model is
\* called exactly for the instructions neither predicate accepts: a request
\* for any other instruction never calls it, and a request for such an
\* instruction cannot get beyond its prompt set-up without having called it.
C23_ClassificationPrecedence ==
    /\ [](\A r \in Requests :
            req[r].kind = "ProcessInstruction"
            => IF AcceptsServices(req[r].instruction) \/ AcceptsTools(req[r].instruction)
               THEN req[r].llmCalls = 0 /\ req[r].pc = "returned"
               ELSE /\ req[r].pc \in {"pi_set", "llm_prompt"} => req[r].llmCalls = 0
                    /\ req[r].pc \notin {"pi_set", "llm_prompt"} => req[r].llmCalls = 1)
    /\ [][ \A r \in Requests : \A inst \in Instructions :
             Answers(r, inst)
             => /\ AcceptsServices(inst)
                   => /\ req'[r].pc = "returned"
                      /\ req'[r].reply.Error = NoError
                      /\ ElementsOf(req'[r].reply.Result) = {services[n].name : n \in DOMAIN services}
                /\ (~AcceptsServices(inst) /\ AcceptsTools(inst))
                   => /\ req'[r].pc = "returned"
                      /\ req'[r].reply.Error = NoError
                      /\ ElementsOf(req'[r].reply.Result) \subseteq {ToolLine(tools[n]) : n \in DOMAIN tools}
                /\ (~AcceptsServices(inst) /\ ~AcceptsTools(inst))
                   => req'[r].pc = "pi_set" ]_vars

\* C23 witness: with a service and tools registered, an instruction that both
\* predicates accept was answered with the service's name
C23_Witness ==
    \E r \in Requests :
        /\ ReturnedPI(req[r])
        /\ req[r].instruction = InstBoth
        /\ AcceptsServices(InstBoth) /\ AcceptsTools(InstBoth)
        /\ DOMAIN services # {} /\ DOMAIN tools # {}
        /\ ElementsOf(req[r].reply.Result) = {services[n].name : n \in DOMAIN services}

\* the names of the tools a stored service registers
ToolNamesOf(service) == {service.defs[i].name : i \in 1..Len(service.defs)}

SingleActionPlan(n, p, t) ==
    LET entered == EPEnter([Idle EXCEPT !.kind = "ExecutePlan",
                                        !.plan = JsonText(JArr(<<JObj(JStr(n), p, "")>>))])
    IN  IF entered.pc = "ep_loop" THEN EPAction(entered, t) ELSE entered

\* a direct call and a plan run are at the same point with the same handler
\* call, or have ended in the same outcome class
SameCallOrClass(direct, plan) ==
    IF direct.pc = "ct_handler"
    THEN /\ plan.pc = "ep_handler"
         /\ Len(direct.log) = 1 /\ Len(plan.log) = 1
         /\ direct.log[1].name = plan.log[1].name
         /\ direct.log[1].handler = plan.log[1].handler
         /\ direct.log[1].params = plan.log[1].params
    ELSE /\ Done(plan)
         /\ direct.log = <<>> /\ plan.log = <<>>
         /\ direct.reply.Error.Code = plan.reply.Error.Code

\* the step is request r's call CallTool(args)
CallsTool(r, args) ==
    /\ req[r].pc = "idle"
    /\ req'[r] = CTEnter([Idle EXCEPT !.kind = "CallTool"], tools, args)

\* C25 as stated: for every tool name n (the empty name and a name with the
\* "functions." prefix included), parameter mapping p and registry,
\* CallTool(n, p) invokes the handler that ExecutePlan invokes on the plan
\* [{action: n, parameters: p}], with the same parameters, or ends in the
\* same outcome class.
C25_CallToolAsPlanForAnyName ==
    [][ \A r \in Requests : \A args \in ToolCallArgs :
          CallsTool(r, args)
          => SameCallOrClass(req'[r], SingleActionPlan(args.ToolName, args.Parameters, tools)) ]_vars

\* C25 amended: for every non-empty tool name n without the "functions."
\* prefix, parameter mapping p and registry, CallTool(n, p) invokes the
\* handler that ExecutePlan invokes on the plan [{action: n, parameters: p}],
\* with the same parameters, or is answered -32601 as the plan is; and when
\* the handler returns, the direct call ends in the outcome class (success
\* or -32000) in which the plan ends.
C25_CallToolAsPlanForPlainName ==
    [][ \A r \in Requests :
          /\ \A args \in ToolCallArgs :
                (CallsTool(r, args) /\ PlainName(args.ToolName))
                => SameCallOrClass(req'[r], SingleActionPlan(args.ToolName, args.Parameters, tools))
          /\ (req[r].pc = "ct_handler" /\ req'[r] # req[r])
             => LET e == req[r].log[1]
                    plan == SingleActionPlan(e.name, e.params, tools)
                    ok == req'[r].log[1].st = "ok"
                IN  /\ plan.pc = "ep_handler"
                    /\ req'[r].pc = "returned"
                    /\ \A d \in HandlerTimes :
                          LET planEnd == EPAfterHandler(Elapse(plan, d), ok) IN
                          /\ Done(planEnd)
                          /\ planEnd.reply.Error.Code = req'[r].reply.Error.Code
                          /\ Populated(planEnd.reply.Result) = Populated(req'[r].reply.Result)
                          /\ planEnd.log[1].st = req'[r].log[1].st ]_vars

\* C25 witness: a direct call of the registered tool a had a's handler
\* invoked and was answered with the success result
C25_Witness ==
    \E r \in Requests :
        /\ req[r].kind = "CallTool" /\ req[r].pc = "returned"
        /\ Len(req[r].log) = 1
        /\ req[r].log[1].name = ToolA /\ req[r].log[1].st = "ok"
        /\ req[r].reply.Error = NoError

====
